---- MODULE Spec2Model ----
(***************************************************************************)
(* Model of the Kagi tool adapters (kagi_summarize, kagi_fastgpt) with     *)
(* their per-adapter response caches and timeout-bounded upstream calls,   *)
(* and of the Postmark inbound webhook handler.                            *)
(*                                                                         *)
(* Strings are TLA+ strings; an optional JavaScript value (T | undefined)  *)
(* is the empty tuple (undefined) or a one-element tuple <<v>>.            *)
(***************************************************************************)
EXTENDS Integers, Sequences, FiniteSets, TLC

(***************************************************************************)
(* Bounds of the model.                                                    *)
(***************************************************************************)
\* number of tool-call slots (calls that can be in flight together)
MaxCalls == 2
\* the clock stops advancing after this many steps of TickMs
MaxTicks == 2

(***************************************************************************)
(* JavaScript values and string primitives.                                *)
(***************************************************************************)
None == << >>
Some(v) == << v >>

\* a ?? b
OrElse(o, d) == IF o # None THEN o[1] ELSE d

\* truthiness of an optional string: undefined and "" are falsy
Truthy(o) == o # None /\ o[1] # ""

LOWER == "abcdefghijklmnopqrstuvwxyz"
UPPER == "ABCDEFGHIJKLMNOPQRSTUVWXYZ"

CharAt(s, i) == SubSeq(s, i, i)

\* the lower-case letter of each upper-case letter, and the converse
LowerOf == [c \in { CharAt(UPPER, i) : i \in 1..26 } |->
              CharAt(LOWER, CHOOSE i \in 1..26 : CharAt(UPPER, i) = c)]
UpperOf == [c \in { CharAt(LOWER, i) : i \in 1..26 } |->
              CharAt(UPPER, CHOOSE i \in 1..26 : CharAt(LOWER, i) = c)]

\* the image of character c under table, c itself when it has none
MapChar(c, table) == IF c \in DOMAIN table THEN table[c] ELSE c

RECURSIVE toLowerCase(_)
toLowerCase(s) ==
  IF s = "" THEN ""
  ELSE MapChar(CharAt(s, 1), LowerOf) \o toLowerCase(SubSeq(s, 2, Len(s)))

RECURSIVE toUpperCase(_)
toUpperCase(s) ==
  IF s = "" THEN ""
  ELSE MapChar(CharAt(s, 1), UpperOf) \o toUpperCase(SubSeq(s, 2, Len(s)))

RECURSIVE trimStart(_)
trimStart(s) ==
  IF s # "" /\ CharAt(s, 1) = " " THEN trimStart(SubSeq(s, 2, Len(s))) ELSE s

RECURSIVE trimEnd(_)
trimEnd(s) ==
  IF s # "" /\ CharAt(s, Len(s)) = " " THEN trimEnd(SubSeq(s, 1, Len(s) - 1)) ELSE s

trim(s) == trimEnd(trimStart(s))

\* String(b) of a boolean, as a template literal prints it
BoolText(b) == IF b THEN "true" ELSE "false"

(***************************************************************************)
(* common.js: parameter readers and the result wrapper.                    *)
(***************************************************************************)
\* a string parameter is read trimmed; a missing or blank one is undefined
readStringParam(params, key) ==
  IF params[key] = None \/ trim(params[key][1]) = "" THEN None
  ELSE Some(trim(params[key][1]))

\* a boolean parameter is read as given; a missing one is undefined
readBoolParam(params, key) == params[key]

\* the tool result handed to the dispatcher carries the record as details
jsonResult(payload) == [details |-> payload]

(***************************************************************************)
(* kagi-summarize.ts: constants and configuration resolvers.               *)
(***************************************************************************)
DEFAULT_TIMEOUT_SECONDS == 60
FASTGPT_DEFAULT_TIMEOUT_SECONDS == 30
DEFAULT_CACHE_TTL_MINUTES == 15

\* the clock advances by at most one default timeout in a step
TickMs == DEFAULT_TIMEOUT_SECONDS * 1000

SUMMARIZER_ENGINES == {"cecil", "agnes", "muriel"}
SUMMARY_TYPES == {"summary", "takeaway"}
TARGET_LANGUAGES ==
  {"BG", "CS", "DA", "DE", "EL", "EN", "ES", "ET", "FI", "FR", "HU", "ID",
   "IT", "JA", "KO", "LT", "LV", "NB", "NL", "PL", "PT", "RO", "RU", "SK",
   "SL", "SV", "TR", "UK", "ZH", "ZH-HANT"}

resolveSummarizerEnabled(config) ==
  IF config.enabled # None THEN config.enabled[1] ELSE TRUE

resolveFastGPTEnabled(config) ==
  IF config.enabled # None THEN config.enabled[1] ELSE TRUE

resolveKagiApiKey(config, envKey) ==
  LET fromConfig == IF config.apiKey # None THEN Some(trim(config.apiKey[1])) ELSE None
      fromEnv    == trim(OrElse(envKey, ""))
  IN  IF Truthy(fromConfig) THEN fromConfig
      ELSE IF fromEnv # "" THEN Some(fromEnv)
      ELSE None

resolveTimeoutSeconds(config) ==
  IF config.timeoutSeconds # None /\ config.timeoutSeconds[1] > 0
    THEN config.timeoutSeconds[1]
    ELSE DEFAULT_TIMEOUT_SECONDS

resolveFastGPTTimeoutSeconds(config) ==
  IF config.timeoutSeconds # None /\ config.timeoutSeconds[1] > 0
    THEN config.timeoutSeconds[1]
    ELSE FASTGPT_DEFAULT_TIMEOUT_SECONDS

\* variant: the minutes are converted to seconds, not to milliseconds
resolveCacheTtlSeconds(config) ==
  IF config.cacheTtlMinutes # None /\ config.cacheTtlMinutes[1] >= 0
    THEN config.cacheTtlMinutes[1] * 60
    ELSE DEFAULT_CACHE_TTL_MINUTES * 60

resolveCacheTtlMs(config) ==
  IF config.cacheTtlMinutes # None /\ config.cacheTtlMinutes[1] >= 0
    THEN config.cacheTtlMinutes[1] * 60 * 1000
    ELSE DEFAULT_CACHE_TTL_MINUTES * 60 * 1000

resolveDefaultCache(config) ==
  IF config.cache # None THEN config.cache[1] ELSE TRUE

resolveDefaultEngine(config) ==
  IF Truthy(config.engine) /\ config.engine[1] \in SUMMARIZER_ENGINES
    THEN config.engine[1]
    ELSE "cecil"

resolveDefaultSummaryType(config) ==
  IF Truthy(config.summaryType) /\ config.summaryType[1] \in SUMMARY_TYPES
    THEN config.summaryType[1]
    ELSE "summary"

resolveDefaultTargetLanguage(config) ==
  LET lang == IF config.targetLanguage # None
                THEN Some(toUpperCase(trim(config.targetLanguage[1])))
                ELSE None
  IN  IF Truthy(lang) /\ lang[1] \in TARGET_LANGUAGES THEN lang ELSE None

\* variant: the normalized engine is not checked against the allow-list
validateEngineUnchecked(engine) ==
  IF ~Truthy(engine) THEN None
  ELSE Some(toLowerCase(trim(engine[1])))

validateEngine(engine) ==
  IF ~Truthy(engine) THEN None
  ELSE LET normalized == toLowerCase(trim(engine[1]))
       IN  IF normalized \in SUMMARIZER_ENGINES THEN Some(normalized) ELSE None

validateSummaryType(summaryType) ==
  IF ~Truthy(summaryType) THEN None
  ELSE LET normalized == toLowerCase(trim(summaryType[1]))
       IN  IF normalized \in SUMMARY_TYPES THEN Some(normalized) ELSE None

\* variant: the two spellings of traditional Chinese are passed on as given
validateTargetLanguageUnmapped(lang) ==
  IF ~Truthy(lang) THEN None
  ELSE LET normalized == toUpperCase(trim(lang[1]))
       IN  IF normalized \in TARGET_LANGUAGES THEN Some(normalized)
           ELSE IF normalized = "ZH-HANT" \/ normalized = "ZHHANT" THEN Some(normalized)
           ELSE None

validateTargetLanguage(lang) ==
  IF ~Truthy(lang) THEN None
  ELSE LET normalized == toUpperCase(trim(lang[1]))
       IN  IF normalized \in TARGET_LANGUAGES THEN Some(normalized)
           ELSE IF normalized = "ZH-HANT" \/ normalized = "ZHHANT" THEN Some("ZH-HANT")
           ELSE None

(***************************************************************************)
(* web-shared.js: cache store, key normalizer, response text, timeout.     *)
(***************************************************************************)
\* a cache key is compared trimmed and in lower case
normalizeCacheKey(value) == toLowerCase(trim(value))

\* the live entry under key at time t, or undefined (absent or expired)
readCache(store, key, t) ==
  IF key \in DOMAIN store /\ ~(t > store[key].expiresAtEpochMs)
    THEN Some(store[key]) ELSE None

\* the store after a read: an expired entry under key is evicted
evictOnRead(store, key, t) ==
  IF key \in DOMAIN store /\ t > store[key].expiresAtEpochMs
    THEN [k \in DOMAIN store \ {key} |-> store[k]]
    ELSE store

\* the store after an unconditional insert-or-overwrite at time t
writeCache(store, key, value, ttlMs, t) ==
  [k \in DOMAIN store \cup {key} |->
     IF k = key THEN [value |-> value, expiresAtEpochMs |-> t + ttlMs]
     ELSE store[k]]

\* the text of a response body
readResponseText(res) == res.detail

\* the instant at which a signal created at time t with timeoutMs aborts
withTimeout(t, timeoutMs) == t + timeoutMs

\* the error a fetch aborted by its timeout signal rejects with
TimeoutError == [name |-> "TimeoutError", message |-> "The operation was aborted due to timeout"]

(***************************************************************************)
(* node:crypto: the first 16 hex digits of the SHA-256 digest, by table.   *)
(***************************************************************************)
sha256hex16(text) ==
  CASE text = ""      -> "e3b0c44298fc1c14"
    [] text = "hello" -> "2cf24dba5fb0a30e"
    [] text = "Hello" -> "185f8db32271fe25"

(***************************************************************************)
(* runSummarize / runFastGPT: the synchronous pieces.                      *)
(***************************************************************************)
SummarizeCacheKey(params) ==
  LET sourceKey == IF Truthy(params.url) THEN params.url[1]
                   ELSE sha256hex16(OrElse(params.text, ""))
  IN  normalizeCacheKey(
        "kagi-summarize:" \o sourceKey \o ":" \o params.engine \o ":"
        \o params.summaryType \o ":"
        \o (IF Truthy(params.targetLanguage) THEN params.targetLanguage[1] ELSE "auto")
        \o ":" \o BoolText(params.cache))

FastGPTCacheKey(params) ==
  normalizeCacheKey("kagi-fastgpt:" \o params.query \o ":" \o BoolText(params.cache))

\* the JSON body of the summarize request
SummarizeBody(params) ==
  [engine |-> params.engine,
   summary_type |-> params.summaryType,
   cache |-> params.cache,
   url |-> IF Truthy(params.url) THEN params.url ELSE None,
   text |-> IF ~Truthy(params.url) /\ Truthy(params.text) THEN params.text ELSE None,
   target_language |-> IF Truthy(params.targetLanguage) THEN params.targetLanguage ELSE None]

FastGPTBody(params) ==
  [query |-> params.query, cache |-> params.cache, web_search |-> TRUE]

SummarizePayload(params, data, tookMs) ==
  [provider |-> "kagi-summarizer",
   source |-> IF Truthy(params.url) THEN params.url[1] ELSE "(text input)",
   engine |-> params.engine,
   summaryType |-> params.summaryType,
   targetLanguage |-> IF Truthy(params.targetLanguage) THEN params.targetLanguage[1] ELSE "auto",
   tookMs |-> tookMs,
   summary |-> OrElse(data.output, "")]

FastGPTPayload(params, data, tookMs) ==
  [query |-> params.query,
   provider |-> "kagi-fastgpt",
   tookMs |-> tookMs,
   answer |-> OrElse(data.output, "")]

\* { ...cached.value, cached: true }
Tagged(value) == [cached |-> TRUE] @@ value

\* the Error thrown for a non-2xx response
HttpError(label, res) ==
  [name |-> "Error",
   message |-> label \o " API error (" \o ToString(res.status) \o "): "
               \o (IF readResponseText(res) # "" THEN readResponseText(res) ELSE res.statusText)]

\* the Error thrown for a 2xx response whose body carries an error object
LogicalError(label, res) ==
  [name |-> "Error",
   message |-> label \o " API error: "
               \o (IF Truthy(res.error) THEN res.error[1] ELSE "Unknown error")]

(***************************************************************************)
(* State.                                                                  *)
(***************************************************************************)
VARIABLES
  now,              \* Date.now(), in milliseconds
  cfg,              \* options.config: [summarizer |-> ..., fastgpt |-> ...]
  envKey,           \* process.env.KAGI_API_KEY
  sandboxed,        \* options.sandboxed
  tools,            \* what the two create functions returned: "tool" or "null"
  SUMMARIZE_CACHE,  \* Map of kagi-summarize.ts
  FASTGPT_CACHE,    \* Map of kagi-fastgpt.ts
  calls,            \* one record per execute() invocation
  inflight,         \* calls whose upstream request is open
  req,              \* the IncomingMessage handed to the webhook handler
  res,              \* the ServerResponse handed to the webhook handler
  handler,          \* the webhook handler's position, buffer and return value
  sendToTelegram    \* opts.sendToTelegram: whether it is given, and the messages it was called with

toolVars == << now, cfg, envKey, sandboxed, tools, SUMMARIZE_CACHE, FASTGPT_CACHE, calls, inflight >>
webhookVars == << req, res, handler, sendToTelegram >>
vars == << toolVars, webhookVars >>

CallIds == 1..MaxCalls

\* a config section in which every setting is undefined
NoConfig ==
  [enabled |-> None, apiKey |-> None, timeoutSeconds |-> None,
   cacheTtlMinutes |-> None, cache |-> None, engine |-> None,
   summaryType |-> None, targetLanguage |-> None]

NoArgs ==
  [url |-> None, text |-> None, engine |-> None, summary_type |-> None,
   target_language |-> None, query |-> None, cache |-> None]

NoParams ==
  [url |-> None, text |-> None, query |-> "", engine |-> "", summaryType |-> "",
   targetLanguage |-> None, apiKey |-> "", cache |-> FALSE,
   timeoutSeconds |-> 0, cacheTtlMs |-> 0]

\* a call that has not been made yet
IdleCall ==
  [pc |-> "idle", tool |-> "", args |-> NoArgs, params |-> NoParams,
   cacheKey |-> "", start |-> 0, deadline |-> 0, request |-> None,
   outcome |-> "none", result |-> None, error |-> None, response |-> None,
   storeReads |-> 0, storeWrites |-> 0, fetches |-> 0, readEntry |-> None]

(***************************************************************************)
(* Tool construction.                                                      *)
(***************************************************************************)
\* variant: without a credential no tool is made, sandboxed or not
createKagiSummarizeToolStrict(config, sb, env) ==
  IF ~resolveSummarizerEnabled(config) THEN "null"
  ELSE IF resolveKagiApiKey(config, env) = None THEN "null"
  ELSE "tool"

createKagiSummarizeTool(config, sb, env) ==
  IF ~resolveSummarizerEnabled(config) THEN "null"
  ELSE IF resolveKagiApiKey(config, env) = None /\ ~sb THEN "null"
  ELSE "tool"

createKagiFastGPTTool(config, sb, env) ==
  IF ~resolveFastGPTEnabled(config) THEN "null"
  ELSE IF resolveKagiApiKey(config, env) = None /\ ~sb THEN "null"
  ELSE "tool"

(***************************************************************************)
(* The inputs the model draws from.                                        *)
(***************************************************************************)
\* construction-time options and environment: config, sandboxed, KAGI_API_KEY
Setups ==
  { \* credentials in config, entries live for one minute
    [cfg |-> [summarizer |-> [NoConfig EXCEPT !.apiKey = Some(" k1 "), !.cacheTtlMinutes = Some(1)],
              fastgpt |-> [NoConfig EXCEPT !.apiKey = Some("k2"), !.cacheTtlMinutes = Some(1),
                                           !.timeoutSeconds = Some(60)]],
     sandboxed |-> FALSE, envKey |-> None],
    \* summarizer only, credential from the environment, entries expire as they are written
    [cfg |-> [summarizer |-> [NoConfig EXCEPT !.engine = Some("agnes"), !.cacheTtlMinutes = Some(0)],
              fastgpt |-> [NoConfig EXCEPT !.enabled = Some(FALSE)]],
     sandboxed |-> FALSE, envKey |-> Some("envkey ")],
    \* sandboxed without a credential
    [cfg |-> [summarizer |-> NoConfig, fastgpt |-> NoConfig],
     sandboxed |-> TRUE, envKey |-> None],
    \* FastGPT only, caching off unless asked for
    [cfg |-> [summarizer |-> [NoConfig EXCEPT !.enabled = Some(FALSE), !.apiKey = Some("k1")],
              fastgpt |-> [NoConfig EXCEPT !.apiKey = Some("k2"), !.cache = Some(FALSE),
                                           !.timeoutSeconds = Some(60)]],
     sandboxed |-> FALSE, envKey |-> None] }

\* the argument bags of the calls that run concurrently
SummarizeArgs ==
  { [NoArgs EXCEPT !.url = Some("https://a.example/Doc"), !.cache = c] :
      c \in { None, Some(FALSE) } }

FastGPTArgs ==
  { [NoArgs EXCEPT !.query = Some("why"), !.cache = c] : c \in { None, Some(FALSE) } }

\* the wider range: every argument on its own and in combination
EngineInputs == { None, Some("agnes"), Some(" Muriel "), Some("gpt4"), Some("") }
SummaryTypeInputs == { None, Some("TAKEAWAY"), Some("bullets") }
LanguageInputs == { None, Some(" es"), Some("zhhant"), Some("klingon") }

WideSummarizeArgs ==
  { [NoArgs EXCEPT !.url = u, !.text = t, !.engine = e, !.summary_type = st,
                   !.target_language = l, !.cache = c] :
      u \in { None, Some("https://a.example/Doc"), Some("  ") },
      t \in { None, Some("hello"), Some("") },
      e \in EngineInputs, st \in SummaryTypeInputs, l \in LanguageInputs,
      c \in { None, Some(TRUE), Some(FALSE) } }

WideFastGPTArgs ==
  { [NoArgs EXCEPT !.query = Some(q), !.cache = c] :
      q \in { "why", " Why " }, c \in { None, Some(TRUE), Some(FALSE) } }

ArgSetups ==
  { \* nothing configured but the credential
    [cfg |-> [summarizer |-> [NoConfig EXCEPT !.apiKey = Some("k1")],
              fastgpt |-> [NoConfig EXCEPT !.apiKey = Some("k2")]],
     sandboxed |-> FALSE, envKey |-> None],
    \* valid defaults configured
    [cfg |-> [summarizer |-> [NoConfig EXCEPT !.engine = Some("muriel"), !.summaryType = Some("takeaway"),
                                              !.targetLanguage = Some(" fr "), !.cache = Some(FALSE),
                                              !.timeoutSeconds = Some(0), !.cacheTtlMinutes = Some(-1)],
              fastgpt |-> [NoConfig EXCEPT !.cache = Some(FALSE)]],
     sandboxed |-> FALSE, envKey |-> Some(" envkey")],
    \* defaults configured that are not in the allow-lists
    [cfg |-> [summarizer |-> [NoConfig EXCEPT !.apiKey = Some("k1"), !.engine = Some("Agnes"),
                                              !.summaryType = Some("TAKEAWAY"),
                                              !.targetLanguage = Some("zhhant")],
              fastgpt |-> [NoConfig EXCEPT !.apiKey = Some("k2"), !.timeoutSeconds = Some(90)]],
     sandboxed |-> FALSE, envKey |-> None],
    \* sandboxed without a credential
    [cfg |-> [summarizer |-> [NoConfig EXCEPT !.apiKey = Some("  ")], fastgpt |-> NoConfig],
     sandboxed |-> TRUE, envKey |-> Some("")] }

\* what the upstream can answer
Answer(out) == [status |-> 200, statusText |-> "OK", detail |-> "", error |-> None, output |-> Some(out)]
Refusal == [status |-> 200, statusText |-> "OK", detail |-> "", error |-> Some("Insufficient credit"), output |-> None]
Failure == [status |-> 500, statusText |-> "Internal Server Error", detail |-> "", error |-> None, output |-> None]

Responses == { Answer("o1"), Answer("o2"), Failure }
WideResponses == { Answer("o1"), Refusal, Failure,
                   [Failure EXCEPT !.status = 429, !.statusText = "Too Many Requests", !.detail = "slow down"] }

ToolInit ==
  /\ now = 0
  /\ \E s \in Setups : cfg = s.cfg /\ sandboxed = s.sandboxed /\ envKey = s.envKey
  /\ tools = [kagi_summarize |-> createKagiSummarizeTool(cfg.summarizer, sandboxed, envKey),
              kagi_fastgpt |-> createKagiFastGPTTool(cfg.fastgpt, sandboxed, envKey)]
  /\ SUMMARIZE_CACHE = << >>
  /\ FASTGPT_CACHE = << >>
  /\ calls = [id \in CallIds |-> IdleCall]
  /\ inflight = {}

(***************************************************************************)
(* execute() up to its first suspension.                                   *)
(***************************************************************************)
\* a call that returned record r to the dispatcher
Returned(c, r) == [c EXCEPT !.pc = "done", !.outcome = "return", !.result = Some(jsonResult(r))]

\* a call whose execute() rejected with error e
Thrown(c, e) == [c EXCEPT !.pc = "done", !.outcome = "throw", !.error = Some(e)]

\* variant: the entry found is not returned, the call goes on to the upstream
AfterLookupAlwaysFetches(c, store, body) ==
  LET p == c.params
      cached == IF p.cache THEN readCache(store, c.cacheKey, now) ELSE None
      looked == [c EXCEPT !.storeReads = IF p.cache THEN 1 ELSE 0, !.readEntry = cached]
  IN  [looked EXCEPT !.pc = "fetching", !.start = now,
                     !.deadline = withTimeout(now, p.timeoutSeconds * 1000),
                     !.request = Some(body), !.fetches = 1]

\* the cache lookup of runSummarize / runFastGPT: the call after it
AfterLookup(c, store, body) ==
  LET p == c.params
      cached == IF p.cache THEN readCache(store, c.cacheKey, now) ELSE None
      looked == [c EXCEPT !.storeReads = IF p.cache THEN 1 ELSE 0, !.readEntry = cached]
  IN  IF cached # None
        THEN Returned(looked, Tagged(cached[1].value))
        ELSE [looked EXCEPT !.pc = "fetching", !.start = now,
                            !.deadline = withTimeout(now, p.timeoutSeconds * 1000),
                            !.request = Some(body), !.fetches = 1]

\* variant: a hit renews the expiry of the entry it found
StoreAfterLookupSliding(c, store) ==
  IF ~c.params.cache THEN store
  ELSE IF readCache(store, c.cacheKey, now) # None
    THEN [store EXCEPT ![c.cacheKey].expiresAtEpochMs = now + c.params.cacheTtlMs]
    ELSE evictOnRead(store, c.cacheKey, now)

\* the store after the cache lookup
StoreAfterLookup(c, store) ==
  IF c.params.cache THEN evictOnRead(store, c.cacheKey, now) ELSE store

\* calls are made in the order of their ids
MayStart(id) ==
  /\ calls[id].pc = "idle"
  /\ \A j \in CallIds : j < id => calls[j].pc # "idle"

SummarizeParams(args, config, apiKey) ==
  LET lang == validateTargetLanguage(readStringParam(args, "target_language"))
  IN  [NoParams EXCEPT
         !.url = readStringParam(args, "url"),
         !.text = readStringParam(args, "text"),
         !.engine = OrElse(validateEngine(readStringParam(args, "engine")),
                           resolveDefaultEngine(config)),
         !.summaryType = OrElse(validateSummaryType(readStringParam(args, "summary_type")),
                                resolveDefaultSummaryType(config)),
         !.targetLanguage = IF lang # None THEN lang ELSE resolveDefaultTargetLanguage(config),
         !.apiKey = apiKey,
         !.cache = OrElse(readBoolParam(args, "cache"), resolveDefaultCache(config)),
         !.timeoutSeconds = resolveTimeoutSeconds(config),
         !.cacheTtlMs = resolveCacheTtlMs(config)]

\* variant: one missing parameter is enough for missing_input
InputErrorEither(url, text) ==
  IF ~Truthy(url) \/ ~Truthy(text) THEN "missing_input"
  ELSE IF Truthy(url) /\ Truthy(text) THEN "conflicting_input"
  ELSE ""

\* the input error of a summarize call, "" when url and text are well given
InputError(url, text) ==
  IF ~Truthy(url) /\ ~Truthy(text) THEN "missing_input"
  ELSE IF Truthy(url) /\ Truthy(text) THEN "conflicting_input"
  ELSE ""

SummarizeDocs == "https://help.kagi.com/kagi/api/summarizer.html"
FastGPTDocs == "https://help.kagi.com/kagi/api/fastgpt.html"

SummarizeExecute(id, args) ==
  /\ tools.kagi_summarize = "tool"
  /\ MayStart(id)
  /\ LET config == cfg.summarizer
         resolvedApiKey == resolveKagiApiKey(config, envKey)
         url == readStringParam(args, "url")
         text == readStringParam(args, "text")
         c0 == [calls[id] EXCEPT !.tool = "kagi_summarize", !.args = args]
     IN  IF ~Truthy(resolvedApiKey) THEN
           /\ calls' = [calls EXCEPT ![id] = Returned(c0,
                 [error |-> "missing_kagi_api_key",
                  message |-> "kagi_summarize needs an API key. Set KAGI_API_KEY in the Gateway environment, or configure tools.web.summarizer.apiKey.",
                  docs |-> SummarizeDocs])]
           /\ UNCHANGED << SUMMARIZE_CACHE, inflight >>
         ELSE IF InputError(url, text) = "missing_input" THEN
           /\ calls' = [calls EXCEPT ![id] = Returned(c0,
                 [error |-> "missing_input",
                  message |-> "Either 'url' or 'text' parameter is required.",
                  docs |-> SummarizeDocs])]
           /\ UNCHANGED << SUMMARIZE_CACHE, inflight >>
         ELSE IF InputError(url, text) = "conflicting_input" THEN
           /\ calls' = [calls EXCEPT ![id] = Returned(c0,
                 [error |-> "conflicting_input",
                  message |-> "Parameters 'url' and 'text' are mutually exclusive. Provide only one.",
                  docs |-> SummarizeDocs])]
           /\ UNCHANGED << SUMMARIZE_CACHE, inflight >>
         ELSE
           LET params == SummarizeParams(args, config, resolvedApiKey[1])
               c1 == [c0 EXCEPT !.params = params, !.cacheKey = SummarizeCacheKey(params)]
               c2 == AfterLookup(c1, SUMMARIZE_CACHE, SummarizeBody(params))
           IN  /\ calls' = [calls EXCEPT ![id] = c2]
               /\ SUMMARIZE_CACHE' = StoreAfterLookup(c1, SUMMARIZE_CACHE)
               /\ inflight' = IF c2.pc = "fetching" THEN inflight \cup {id} ELSE inflight
  /\ UNCHANGED << now, cfg, envKey, sandboxed, tools, FASTGPT_CACHE, webhookVars >>

FastGPTParams(args, config, apiKey) ==
  [NoParams EXCEPT
     !.query = readStringParam(args, "query")[1],
     !.apiKey = apiKey,
     !.cache = OrElse(readBoolParam(args, "cache"), resolveDefaultCache(config)),
     !.timeoutSeconds = resolveFastGPTTimeoutSeconds(config),
     !.cacheTtlMs = resolveCacheTtlMs(config)]

\* variant: the call goes on without a credential
FastGPTExecuteUnchecked(id, args) ==
  /\ tools.kagi_fastgpt = "tool"
  /\ MayStart(id)
  /\ LET config == cfg.fastgpt
         resolvedApiKey == resolveKagiApiKey(config, envKey)
         c0 == [calls[id] EXCEPT !.tool = "kagi_fastgpt", !.args = args]
         params == FastGPTParams(args, config, OrElse(resolvedApiKey, ""))
         c1 == [c0 EXCEPT !.params = params, !.cacheKey = FastGPTCacheKey(params)]
         c2 == AfterLookup(c1, FASTGPT_CACHE, FastGPTBody(params))
     IN  /\ calls' = [calls EXCEPT ![id] = c2]
         /\ FASTGPT_CACHE' = StoreAfterLookup(c1, FASTGPT_CACHE)
         /\ inflight' = IF c2.pc = "fetching" THEN inflight \cup {id} ELSE inflight
  /\ UNCHANGED << now, cfg, envKey, sandboxed, tools, SUMMARIZE_CACHE, webhookVars >>

FastGPTExecute(id, args) ==
  /\ tools.kagi_fastgpt = "tool"
  /\ MayStart(id)
  /\ LET config == cfg.fastgpt
         resolvedApiKey == resolveKagiApiKey(config, envKey)
         c0 == [calls[id] EXCEPT !.tool = "kagi_fastgpt", !.args = args]
     IN  IF ~Truthy(resolvedApiKey) THEN
           /\ calls' = [calls EXCEPT ![id] = Returned(c0,
                 [error |-> "missing_kagi_api_key",
                  message |-> "kagi_fastgpt needs an API key. Set KAGI_API_KEY in the Gateway environment, or configure tools.web.fastgpt.apiKey.",
                  docs |-> FastGPTDocs])]
           /\ UNCHANGED << FASTGPT_CACHE, inflight >>
         ELSE
           LET params == FastGPTParams(args, config, resolvedApiKey[1])
               c1 == [c0 EXCEPT !.params = params, !.cacheKey = FastGPTCacheKey(params)]
               c2 == AfterLookup(c1, FASTGPT_CACHE, FastGPTBody(params))
           IN  /\ calls' = [calls EXCEPT ![id] = c2]
               /\ FASTGPT_CACHE' = StoreAfterLookup(c1, FASTGPT_CACHE)
               /\ inflight' = IF c2.pc = "fetching" THEN inflight \cup {id} ELSE inflight
  /\ UNCHANGED << now, cfg, envKey, sandboxed, tools, SUMMARIZE_CACHE, webhookVars >>

(***************************************************************************)
(* execute() resumed: the upstream answers, or the timeout signal aborts.   *)
(***************************************************************************)
\* the call after its fetch resolved with resp
AfterResponse(c, resp, label, payload) ==
  LET got == [c EXCEPT !.response = Some(resp)]
  IN  IF ~(resp.status >= 200 /\ resp.status <= 299) THEN Thrown(got, HttpError(label, resp))
      ELSE IF Truthy(resp.error) THEN Thrown(got, LogicalError(label, resp))
      ELSE [Returned(got, payload) EXCEPT !.storeWrites = IF c.params.cache THEN 1 ELSE 0]

\* variant: the result is stored whatever the cache flag is
StoreAfterResponseAlways(c, resp, store, payload) ==
  IF (resp.status >= 200 /\ resp.status <= 299) /\ ~Truthy(resp.error)
    THEN writeCache(store, c.cacheKey, payload, c.params.cacheTtlMs, now)
    ELSE store

\* variant: what was shaped from the response is stored whether or not the upstream
\* reported a failure
StoreAfterResponseUnchecked(c, resp, store, payload) ==
  IF c.params.cache
    THEN writeCache(store, c.cacheKey, payload, c.params.cacheTtlMs, now)
    ELSE store

\* variant: a result is not stored over an entry that is already there
StoreAfterResponseKeepsFirst(c, resp, store, payload) ==
  IF (resp.status >= 200 /\ resp.status <= 299) /\ ~Truthy(resp.error) /\ c.params.cache
       /\ c.cacheKey \notin DOMAIN store
    THEN writeCache(store, c.cacheKey, payload, c.params.cacheTtlMs, now)
    ELSE store

\* the store after the fetch resolved with resp
StoreAfterResponse(c, resp, store, payload) ==
  IF (resp.status >= 200 /\ resp.status <= 299) /\ ~Truthy(resp.error) /\ c.params.cache
    THEN writeCache(store, c.cacheKey, payload, c.params.cacheTtlMs, now)
    ELSE store

SummarizeRespond(id, resp) ==
  /\ calls[id].pc = "fetching"
  /\ calls[id].tool = "kagi_summarize"
  /\ now <= calls[id].deadline
  /\ LET c == calls[id]
         payload == SummarizePayload(c.params, resp, now - c.start)
     IN  /\ calls' = [calls EXCEPT ![id] = AfterResponse(c, resp, "Kagi Summarizer", payload)]
         /\ SUMMARIZE_CACHE' = StoreAfterResponse(c, resp, SUMMARIZE_CACHE, payload)
  /\ inflight' = inflight \ {id}
  /\ UNCHANGED << now, cfg, envKey, sandboxed, tools, FASTGPT_CACHE, webhookVars >>

FastGPTRespond(id, resp) ==
  /\ calls[id].pc = "fetching"
  /\ calls[id].tool = "kagi_fastgpt"
  /\ now <= calls[id].deadline
  /\ LET c == calls[id]
         payload == FastGPTPayload(c.params, resp, now - c.start)
     IN  /\ calls' = [calls EXCEPT ![id] = AfterResponse(c, resp, "Kagi FastGPT", payload)]
         /\ FASTGPT_CACHE' = StoreAfterResponse(c, resp, FASTGPT_CACHE, payload)
  /\ inflight' = inflight \ {id}
  /\ UNCHANGED << now, cfg, envKey, sandboxed, tools, SUMMARIZE_CACHE, webhookVars >>

\* variant: the aborted call leaves a placeholder entry under its key
TimeoutStoresPlaceholder(id) ==
  /\ calls[id].pc = "fetching"
  /\ now >= calls[id].deadline
  /\ calls' = [calls EXCEPT ![id] = Thrown(calls[id], TimeoutError)]
  /\ inflight' = inflight \ {id}
  /\ LET c == calls[id]
         wrote(store) == IF c.params.cache
                           THEN writeCache(store, c.cacheKey, [summary |-> ""], c.params.cacheTtlMs, now)
                           ELSE store
     IN  IF c.tool = "kagi_summarize"
           THEN SUMMARIZE_CACHE' = wrote(SUMMARIZE_CACHE) /\ UNCHANGED FASTGPT_CACHE
           ELSE FASTGPT_CACHE' = wrote(FASTGPT_CACHE) /\ UNCHANGED SUMMARIZE_CACHE
  /\ UNCHANGED << now, cfg, envKey, sandboxed, tools, webhookVars >>

\* the timeout signal fires: the fetch is aborted and rejects
Timeout(id) ==
  /\ calls[id].pc = "fetching"
  /\ now >= calls[id].deadline
  /\ calls' = [calls EXCEPT ![id] = Thrown(calls[id], TimeoutError)]
  /\ inflight' = inflight \ {id}
  /\ UNCHANGED << now, cfg, envKey, sandboxed, tools, SUMMARIZE_CACHE, FASTGPT_CACHE, webhookVars >>

\* the earliest pending abort instant not before t, or t + TickMs
NextInstant(t) ==
  LET pending == { calls[id].deadline : id \in { j \in CallIds : calls[j].pc = "fetching" } }
      soon == { d \in pending : d <= t + TickMs }
  IN  IF soon = {} THEN t + TickMs
      ELSE CHOOSE d \in soon : \A e \in soon : d <= e

\* time passes, but not beyond an abort that is due
Tick ==
  /\ now < MaxTicks * TickMs
  /\ NextInstant(now) > now
  /\ now' = NextInstant(now)
  /\ UNCHANGED << cfg, envKey, sandboxed, tools, SUMMARIZE_CACHE, FASTGPT_CACHE, calls, inflight, webhookVars >>

ToolNext ==
  \/ \E id \in CallIds : MayStart(id) /\ \E args \in SummarizeArgs : SummarizeExecute(id, args)
  \/ \E id \in CallIds : MayStart(id) /\ \E args \in FastGPTArgs : FastGPTExecute(id, args)
  \/ \E id \in CallIds, resp \in Responses : SummarizeRespond(id, resp)
  \/ \E id \in CallIds, resp \in Responses : FastGPTRespond(id, resp)
  \/ \E id \in CallIds : Timeout(id)
  \/ Tick

(***************************************************************************)
(* Postmark webhook: JSON values, the request and the response.            *)
(***************************************************************************)
\* a decoded JSON value; a number is carried by its text
JNull == [type |-> "null", str |-> "", fields |-> << >>]
JString(t) == [type |-> "string", str |-> t, fields |-> << >>]
JNumber(t) == [type |-> "number", str |-> t, fields |-> << >>]
JObject(f) == [type |-> "object", str |-> "", fields |-> f]

\* v.name for a decoded value that is not null: the member, or undefined
Member(v, name) ==
  IF v.type = "object" /\ name \in DOMAIN v.fields THEN Some(v.fields[name]) ELSE None

\* truthiness of an optional decoded value
JTruthy(o) ==
  /\ o # None
  /\ o[1].type # "null"
  /\ ~(o[1].type = "string" /\ o[1].str = "")
  /\ ~(o[1].type = "number" /\ o[1].str = "0")

EmailText ==
  "{\"MessageID\":\"m-1\",\"From\":\"ann@x.test\",\"Subject\":\"Hi\",\"TextBody\":\"hello\"}"
ReplyText ==
  "{\"MessageID\":\"m-2\",\"From\":\"bob@x.test\",\"Subject\":\"Re\",\"TextBody\":\"long\",\"StrippedTextReply\":\"ok\"}"
OddText == "{\"MessageID\":\"m-3\",\"TextBody\":5}"

\* a text body of 1001 characters, and an email that carries it
X10 == "xxxxxxxxxx"
X100 == X10 \o X10 \o X10 \o X10 \o X10 \o X10 \o X10 \o X10 \o X10 \o X10
LongBody == X100 \o X100 \o X100 \o X100 \o X100 \o X100 \o X100 \o X100 \o X100 \o X100 \o "y"
LongText ==
  "{\"MessageID\":\"m-4\",\"From\":\"cy@x.test\",\"FromFull\":{\"Name\":\"Cy\"},\"Subject\":\"News\",\"TextBody\":\""
    \o LongBody \o "\"}"

\* JSON.parse, by table: the decoded value, or undefined for a SyntaxError
JSONparse(text) ==
  CASE text = EmailText ->
         Some(JObject([MessageID |-> JString("m-1"), From |-> JString("ann@x.test"),
                       Subject |-> JString("Hi"), TextBody |-> JString("hello")]))
    [] text = ReplyText ->
         Some(JObject([MessageID |-> JString("m-2"), From |-> JString("bob@x.test"),
                       Subject |-> JString("Re"), TextBody |-> JString("long"),
                       StrippedTextReply |-> JString("ok")]))
    [] text = OddText ->
         Some(JObject([MessageID |-> JString("m-3"), TextBody |-> JNumber("5")]))
    [] text = LongText ->
         Some(JObject([MessageID |-> JString("m-4"), From |-> JString("cy@x.test"),
                       FromFull |-> JObject([Name |-> JString("Cy")]),
                       Subject |-> JString("News"), TextBody |-> JString(LongBody)]))
    [] text = "{}" -> Some(JObject(<< >>))
    [] text = "{\"Subject\":\"Hi\"}" -> Some(JObject([Subject |-> JString("Hi")]))
    [] text = "5" -> Some(JNumber("5"))
    [] text = "\"hi\"" -> Some(JString("hi"))
    [] text = "null" -> Some(JNull)
    [] OTHER -> None

\* the pathname of new URL(url, "http://localhost"): url up to its query or fragment
RECURSIVE UpToQuery(_)
UpToQuery(u) ==
  IF u = "" \/ CharAt(u, 1) = "?" \/ CharAt(u, 1) = "#" THEN ""
  ELSE CharAt(u, 1) \o UpToQuery(SubSeq(u, 2, Len(u)))

Pathname(url) == UpToQuery(OrElse(url, "/"))

\* a response nothing has been written to
FreshResponse == [statusCode |-> None, contentType |-> None, body |-> None, ended |-> 0]

sendJson(r, status, body) ==
  [r EXCEPT !.statusCode = Some(status),
            !.contentType = Some("application/json; charset=utf-8"),
            !.body = Some(body),
            !.ended = r.ended + 1]

\* the bodies a request can carry, as the chunks they arrive in
Bodies ==
  { << EmailText >>, << SubSeq(EmailText, 1, 20), SubSeq(EmailText, 21, Len(EmailText)) >>,
    << ReplyText >>, << OddText >>, << LongText >>,
    << "{}" >>, << "{\"Subject\":\"Hi\"}" >>, << "5" >>, << "\"hi\"" >>, << "null" >>,
    << "not json" >>, << "{\"MessageID\":" >>, << >> }

Requests ==
  { [url |-> u, method |-> m, chunks |-> b, failed |-> FALSE] :
      u \in { None, Some("/webhooks/postmark"), Some("/webhooks/postmark?src=pm"),
              Some("/webhooks/postmark/"), Some("/hooks/other") },
      m \in { "POST", "GET", "PUT" },
      b \in Bodies }

IdleHandler == [pc |-> "start", body |-> "", message |-> None, returned |-> None]

\* a sink that was never called
NoSink(given) == [given |-> given, sent |-> << >>]

WebhookInit ==
  /\ req \in Requests
  /\ res = FreshResponse
  /\ handler = IdleHandler
  /\ sendToTelegram \in { NoSink(given) : given \in BOOLEAN }

(***************************************************************************)
(* createPostmarkWebhookHandler: the handler, one action per resumption.   *)
(***************************************************************************)
\* variant: the method is matched before the path
WebhookHandleMethodFirst ==
  /\ handler.pc = "start"
  /\ IF req.method # "POST" THEN
       /\ res' = sendJson(res, 405, [error |-> "Method not allowed"])
       /\ handler' = [handler EXCEPT !.pc = "done", !.returned = Some(TRUE)]
     ELSE IF Pathname(req.url) # "/webhooks/postmark" THEN
       /\ handler' = [handler EXCEPT !.pc = "done", !.returned = Some(FALSE)]
       /\ UNCHANGED res
     ELSE
       /\ handler' = [handler EXCEPT !.pc = "reading"]
       /\ UNCHANGED res
  /\ UNCHANGED << req, sendToTelegram, toolVars >>

\* the handler is called: path and method are matched
WebhookHandle ==
  /\ handler.pc = "start"
  /\ IF Pathname(req.url) # "/webhooks/postmark" THEN
       /\ handler' = [handler EXCEPT !.pc = "done", !.returned = Some(FALSE)]
       /\ UNCHANGED res
     ELSE IF req.method # "POST" THEN
       /\ res' = sendJson(res, 405, [error |-> "Method not allowed"])
       /\ handler' = [handler EXCEPT !.pc = "done", !.returned = Some(TRUE)]
     ELSE
       /\ handler' = [handler EXCEPT !.pc = "reading"]
       /\ UNCHANGED res
  /\ UNCHANGED << req, sendToTelegram, toolVars >>

\* readJsonBody: a chunk of the body arrives
WebhookData ==
  /\ handler.pc = "reading"
  /\ ~req.failed
  /\ req.chunks # << >>
  /\ handler' = [handler EXCEPT !.body = handler.body \o Head(req.chunks)]
  /\ req' = [req EXCEPT !.chunks = Tail(req.chunks)]
  /\ UNCHANGED << res, sendToTelegram, toolVars >>

\* variant: a body that does not decode is acknowledged all the same
AfterBodyAcceptsAll(text) ==
  LET parsed == JSONparse(text)
  IN  IF parsed = None \/ parsed[1].type = "null"
        THEN sendJson(res, 200, [ok |-> TRUE, messageId |-> None])
      ELSE
        LET email == parsed[1]
            stripped == Member(email, "StrippedTextReply")
            textBody == IF JTruthy(stripped) THEN stripped ELSE Member(email, "TextBody")
        IN  IF JTruthy(textBody) /\ textBody[1].type # "string"
              THEN sendJson(res, 400, [error |-> "Invalid payload"])
              ELSE sendJson(res, 200, [ok |-> TRUE, messageId |-> Member(email, "MessageID")])

\* variant: the email is acknowledged before its display text is built
AfterBodyAcksFirst(text) ==
  LET parsed == JSONparse(text)
  IN  IF parsed = None
        THEN sendJson(res, 400, [error |-> "Invalid payload"])
      ELSE
        LET email == parsed[1]
            acked == sendJson(res, 200, [ok |-> TRUE, messageId |-> Member(email, "MessageID")])
            stripped == Member(email, "StrippedTextReply")
            textBody == IF JTruthy(stripped) THEN stripped ELSE Member(email, "TextBody")
        IN  IF email.type = "null" THEN sendJson(res, 400, [error |-> "Invalid payload"])
            ELSE IF JTruthy(textBody) /\ textBody[1].type # "string"
              THEN sendJson(acked, 400, [error |-> "Invalid payload"])
              ELSE acked

\* the response after the body text was read to its end
AfterBody(text) ==
  LET parsed == JSONparse(text)
  IN  IF parsed = None \/ parsed[1].type = "null"
        THEN sendJson(res, 400, [error |-> "Invalid payload"])
      ELSE
        LET email == parsed[1]
            stripped == Member(email, "StrippedTextReply")
            textBody == IF JTruthy(stripped) THEN stripped ELSE Member(email, "TextBody")
        IN  IF JTruthy(textBody) /\ textBody[1].type # "string"
              THEN sendJson(res, 400, [error |-> "Invalid payload"])
              ELSE sendJson(res, 200, [ok |-> TRUE, messageId |-> Member(email, "MessageID")])

\* `${v}` for an optional decoded value
JText(o) ==
  IF o = None THEN "undefined"
  ELSE IF o[1].type = "null" THEN "null"
  ELSE IF o[1].type = "object" THEN "[object Object]"
  ELSE o[1].str

\* a || b for optional decoded values
JOr(a, b) == IF JTruthy(a) THEN a ELSE b

\* the display text built from a decoded email whose text body is a string or empty
\* (the pictograph that opens the first line is left out)
FormatMessage(email) ==
  LET textBody == JText(JOr(JOr(Member(email, "StrippedTextReply"), Member(email, "TextBody")),
                            Some(JString(""))))
      fromFull == Member(email, "FromFull")
      name == IF fromFull = None \/ fromFull[1].type = "null" THEN None
              ELSE Member(fromFull[1], "Name")
  IN  "**New Email**" \o "\n" \o "" \o "\n"
        \o "**From:** " \o JText(JOr(name, Member(email, "From"))) \o "\n"
        \o "**Subject:** " \o JText(Member(email, "Subject")) \o "\n"
        \o "" \o "\n"
        \o SubSeq(textBody, 1, IF Len(textBody) > 1000 THEN 1000 ELSE Len(textBody))
        \o (IF Len(textBody) > 1000 THEN "..." ELSE "")

\* the handler's local `message` after the body text was read to its end: set when the
\* text decodes and the display text could be built
MessageAfterBody(text) ==
  LET parsed == JSONparse(text)
  IN  IF parsed = None \/ parsed[1].type = "null" THEN None
      ELSE
        LET email == parsed[1]
            textBody == JOr(Member(email, "StrippedTextReply"), Member(email, "TextBody"))
        IN  IF JTruthy(textBody) /\ textBody[1].type # "string" THEN None
            ELSE Some(FormatMessage(email))

\* readJsonBody: the body ends, it is decoded and answered; the display text is built
\* and dropped, sendToTelegram is not called
WebhookEnd ==
  /\ handler.pc = "reading"
  /\ ~req.failed
  /\ req.chunks = << >>
  /\ res' = AfterBody(handler.body)
  /\ handler' = [handler EXCEPT !.pc = "done", !.returned = Some(TRUE),
                                !.message = MessageAfterBody(handler.body)]
  /\ UNCHANGED << req, sendToTelegram, toolVars >>

\* readJsonBody: the request stream fails before its end
WebhookError ==
  /\ handler.pc = "reading"
  /\ ~req.failed
  /\ req' = [req EXCEPT !.failed = TRUE]
  /\ res' = sendJson(res, 400, [error |-> "Invalid payload"])
  /\ handler' = [handler EXCEPT !.pc = "done", !.returned = Some(TRUE)]
  /\ UNCHANGED << sendToTelegram, toolVars >>

WebhookNext ==
  \/ WebhookHandle
  \/ WebhookData
  \/ WebhookEnd
  \/ WebhookError

(***************************************************************************)
(* Specifications.                                                         *)
(***************************************************************************)
\* no tool is constructed and no call is made
ToolsOff ==
  /\ now = 0
  /\ cfg = [summarizer |-> [NoConfig EXCEPT !.enabled = Some(FALSE)],
            fastgpt |-> [NoConfig EXCEPT !.enabled = Some(FALSE)]]
  /\ envKey = None
  /\ sandboxed = FALSE
  /\ tools = [kagi_summarize |-> createKagiSummarizeTool(cfg.summarizer, sandboxed, envKey),
              kagi_fastgpt |-> createKagiFastGPTTool(cfg.fastgpt, sandboxed, envKey)]
  /\ SUMMARIZE_CACHE = << >>
  /\ FASTGPT_CACHE = << >>
  /\ calls = [id \in CallIds |-> IdleCall]
  /\ inflight = {}

\* no webhook request arrives
WebhookOff ==
  /\ req = [url |-> None, method |-> "GET", chunks |-> << >>, failed |-> FALSE]
  /\ res = FreshResponse
  /\ handler = IdleHandler
  /\ sendToTelegram = NoSink(FALSE)

\* the tool adapters: concurrent calls, the stores and the clock
Init == ToolInit /\ WebhookOff
Next == ToolNext
Spec == Init /\ [][Next]_vars

\* one call at a time, over the wider range of arguments and configurations
InitArgs ==
  /\ now = 0
  /\ \E s \in ArgSetups : cfg = s.cfg /\ sandboxed = s.sandboxed /\ envKey = s.envKey
  /\ tools = [kagi_summarize |-> createKagiSummarizeTool(cfg.summarizer, sandboxed, envKey),
              kagi_fastgpt |-> createKagiFastGPTTool(cfg.fastgpt, sandboxed, envKey)]
  /\ SUMMARIZE_CACHE = << >>
  /\ FASTGPT_CACHE = << >>
  /\ calls = [id \in CallIds |-> IdleCall]
  /\ inflight = {}
  /\ WebhookOff
NextArgs ==
  \/ MayStart(1) /\ \E args \in WideSummarizeArgs : SummarizeExecute(1, args)
  \/ MayStart(1) /\ \E args \in WideFastGPTArgs : FastGPTExecute(1, args)
  \/ \E resp \in WideResponses : SummarizeRespond(1, resp)
  \/ \E resp \in WideResponses : FastGPTRespond(1, resp)
  \/ Timeout(1)
  \/ Tick
SpecArgs == InitArgs /\ [][NextArgs]_vars

\* the webhook handler on one request
InitWebhook == ToolsOff /\ WebhookInit
NextWebhook == WebhookNext
SpecWebhook == InitWebhook /\ [][NextWebhook]_vars

\* two calls side by side, over the arguments the cache key is derived from
KeySetup ==
  [cfg |-> [summarizer |-> [NoConfig EXCEPT !.apiKey = Some("k1")],
            fastgpt |-> [NoConfig EXCEPT !.apiKey = Some("k2")]],
   sandboxed |-> FALSE, envKey |-> None]

KeySources ==
  { [url |-> Some("https://a.example/Doc"), text |-> None],
    [url |-> Some("https://b.example/"), text |-> None],
    [url |-> Some("2cf24dba5fb0a30e"), text |-> None],
    [url |-> None, text |-> Some("hello")],
    [url |-> None, text |-> Some("Hello")] }

KeySummarizeArgs ==
  { [NoArgs EXCEPT !.url = s.url, !.text = s.text, !.engine = e, !.summary_type = st,
                   !.target_language = l] :
      s \in KeySources,
      e \in { None, Some("agnes"), Some(" AGNES") },
      st \in { None, Some("Takeaway") },
      l \in { None, Some("es"), Some(" ES "), Some("fr") } }

KeyFastGPTArgs ==
  { [NoArgs EXCEPT !.query = Some(q), !.cache = c] :
      q \in { "why", "how" }, c \in { None, Some(FALSE) } }

InitKeys ==
  /\ now = 0
  /\ cfg = KeySetup.cfg /\ sandboxed = KeySetup.sandboxed /\ envKey = KeySetup.envKey
  /\ tools = [kagi_summarize |-> createKagiSummarizeTool(cfg.summarizer, sandboxed, envKey),
              kagi_fastgpt |-> createKagiFastGPTTool(cfg.fastgpt, sandboxed, envKey)]
  /\ SUMMARIZE_CACHE = << >>
  /\ FASTGPT_CACHE = << >>
  /\ calls = [id \in CallIds |-> IdleCall]
  /\ inflight = {}
  /\ WebhookOff
NextKeys ==
  \/ \E id \in { 1, 2 } : MayStart(id) /\ \E args \in KeySummarizeArgs : SummarizeExecute(id, args)
  \/ \E id \in { 1, 2 } : MayStart(id) /\ \E args \in KeyFastGPTArgs : FastGPTExecute(id, args)
SpecKeys == InitKeys /\ [][NextKeys]_vars

\* construction over every combination of enabled flag, credential and sandbox mode,
\* followed by one call
CreateSections ==
  { [NoConfig EXCEPT !.enabled = e, !.apiKey = k] :
      e \in { None, Some(TRUE), Some(FALSE) },
      k \in { None, Some("  "), Some(" k1 ") } }

InitCreate ==
  /\ now = 0
  /\ \E s \in CreateSections, f \in CreateSections : cfg = [summarizer |-> s, fastgpt |-> f]
  /\ envKey \in { None, Some(""), Some(" envkey") }
  /\ sandboxed \in BOOLEAN
  /\ tools = [kagi_summarize |-> createKagiSummarizeTool(cfg.summarizer, sandboxed, envKey),
              kagi_fastgpt |-> createKagiFastGPTTool(cfg.fastgpt, sandboxed, envKey)]
  /\ SUMMARIZE_CACHE = << >>
  /\ FASTGPT_CACHE = << >>
  /\ calls = [id \in CallIds |-> IdleCall]
  /\ inflight = {}
  /\ WebhookOff
NextCreate ==
  \/ MayStart(1) /\ \E args \in SummarizeArgs : SummarizeExecute(1, args)
  \/ MayStart(1) /\ \E args \in FastGPTArgs : FastGPTExecute(1, args)
  \/ \E resp \in Responses : SummarizeRespond(1, resp)
  \/ \E resp \in Responses : FastGPTRespond(1, resp)
  \/ Timeout(1)
  \/ Tick
SpecCreate == InitCreate /\ [][NextCreate]_vars
(***************************************************************************)
(* Vocabulary of the properties.                                           *)
(***************************************************************************)
\* the store of the adapter a call belongs to
StoreOf(tool) == IF tool = "kagi_summarize" THEN SUMMARIZE_CACHE ELSE FASTGPT_CACHE

\* the same store after the step
StoreAfter(tool) == IF tool = "kagi_summarize" THEN SUMMARIZE_CACHE' ELSE FASTGPT_CACHE'

\* the config section of the adapter a call belongs to
SectionOf(tool) == IF tool = "kagi_summarize" THEN cfg.summarizer ELSE cfg.fastgpt

\* the step in which execute() of call id runs up to its first suspension
Started(id) == calls[id].pc = "idle" /\ calls'[id].pc # "idle"

\* the step in which execute() of call id resumes and ends
Finished(id) == calls[id].pc = "fetching" /\ calls'[id].pc = "done"

\* the call got as far as the cache lookup
Looked(c) == c.cacheKey # ""

\* the cache flag in force: the caller's, else the configured one, else true
EffectiveCache(c) ==
  IF c.args.cache # None THEN c.args.cache[1]
  ELSE IF SectionOf(c.tool).cache # None THEN SectionOf(c.tool).cache[1]
  ELSE TRUE

\* the time-to-live in force, in milliseconds
ConfiguredTtlMs(tool) ==
  LET m == SectionOf(tool).cacheTtlMinutes
  IN  IF m # None /\ m[1] >= 0 THEN m[1] * 60000 ELSE 15 * 60000

\* the call returned a record (not an exception) to the dispatcher
ReturnedData(c) == c.pc = "done" /\ c.outcome = "return" /\ c.result # None

\* the record a call returned
Details(c) == c.result[1].details

\* the call returned a record tagged cached: true
ReturnedCached(c) ==
  ReturnedData(c) /\ "cached" \in DOMAIN Details(c) /\ Details(c).cached = TRUE

\* the error code of the record a call returned, "" when it has none
ErrorCode(c) ==
  IF ReturnedData(c) /\ "error" \in DOMAIN Details(c) THEN Details(c).error ELSE ""

\* an optional string that is missing or holds nothing but spaces
Blank(o) == o = None \/ \A i \in 1..Len(o[1]) : CharAt(o[1], i) = " "

\* a credential can be resolved from the config or the environment
CredentialResolvable(tool) == ~Blank(SectionOf(tool).apiKey) \/ ~Blank(envKey)

\* argument values that are absent or outside the allow-lists
UnrecognizedEngines == { None, Some("gpt4"), Some("") }
UnrecognizedSummaryTypes == { None, Some("bullets") }
UnrecognizedLanguages == { None, Some("klingon") }

\* what the configuration makes of an absent or unknown argument
ExpectedDefaultEngine ==
  IF cfg.summarizer.engine \in { Some("cecil"), Some("agnes"), Some("muriel") }
    THEN cfg.summarizer.engine[1] ELSE "cecil"

ExpectedDefaultSummaryType ==
  IF cfg.summarizer.summaryType \in { Some("summary"), Some("takeaway") }
    THEN cfg.summarizer.summaryType[1] ELSE "summary"

ExpectedDefaultLanguage ==
  IF cfg.summarizer.targetLanguage = Some(" fr ") THEN Some("FR") ELSE None

\* the request urls whose path is /webhooks/postmark
PostmarkUrls == { Some("/webhooks/postmark"), Some("/webhooks/postmark?src=pm") }

\* body texts that are not JSON, and JSON texts that are not an inbound email
NotJsonTexts == { "not json", "{\"MessageID\":", "" }
MalformedJsonTexts == { "{}", "{\"Subject\":\"Hi\"}", "5", "\"hi\"", "null" }

\* the handler ended after reading the whole body, which was text
BodyRead(text) ==
  handler.pc = "done" /\ req.method = "POST" /\ ~req.failed /\ handler.body = text

(***************************************************************************)
(* C1  Cache correctness.  A successful cache-enabled call writes the      *)
(* value it returns under its key with expiry w + t (w the time of the     *)
(* write, t the configured TTL); a cache-enabled call that finds an entry  *)
(* under its key strictly before the entry's expiry is answered with that  *)
(* entry's value and makes no upstream request; one that finds it strictly *)
(* after the expiry goes to the upstream; and no call is answered from an  *)
(* entry whose expiry has passed.                                          *)
(***************************************************************************)
C1_CacheCorrectness ==
  [][\A id \in CallIds :
       LET c  == calls'[id]
           st == StoreOf(c.tool)
           k  == c.cacheKey
       IN  /\ (Started(id) /\ Looked(c) /\ EffectiveCache(c) /\ k \in DOMAIN st) =>
                /\ now < st[k].expiresAtEpochMs =>
                     /\ ReturnedData(c)
                     /\ Details(c) = [cached |-> TRUE] @@ st[k].value
                     /\ c.fetches = 0
                /\ now > st[k].expiresAtEpochMs =>
                     /\ c.pc = "fetching"
                     /\ c.fetches = 1
           /\ (Started(id) /\ ReturnedCached(c)) =>
                /\ k \in DOMAIN st
                /\ now <= st[k].expiresAtEpochMs
           /\ (Finished(id) /\ ReturnedData(c) /\ EffectiveCache(c)) =>
                /\ k \in DOMAIN StoreAfter(c.tool)
                /\ StoreAfter(c.tool)[k] =
                     [value |-> Details(c),
                      expiresAtEpochMs |-> now + ConfiguredTtlMs(c.tool)]
  ]_vars

\* a call is answered from the store, before the expiry, with the value
\* another call of the same adapter wrote under a positive TTL
C1_Witness ==
  \E i, j \in CallIds :
    /\ i # j
    /\ calls[j].pc = "done" /\ calls[j].storeWrites = 1
    /\ calls[i].tool = calls[j].tool /\ calls[i].cacheKey = calls[j].cacheKey
    /\ ReturnedCached(calls[i])
    /\ Details(calls[i]) = [cached |-> TRUE] @@ Details(calls[j])
    /\ ConfiguredTtlMs(calls[j].tool) > 0
    /\ now < calls[j].start + Details(calls[j]).tookMs + ConfiguredTtlMs(calls[j].tool)

\* a cache-enabled call misses after the expiry of what another call wrote
C1_MissAfterExpiry ==
  \E i, j \in CallIds :
    /\ i # j
    /\ calls[j].pc = "done" /\ calls[j].storeWrites = 1
    /\ calls[i].tool = calls[j].tool /\ calls[i].cacheKey = calls[j].cacheKey
    /\ calls[i].storeReads = 1 /\ calls[i].fetches = 1
    /\ ConfiguredTtlMs(calls[j].tool) > 0
    /\ calls[i].start > calls[j].start + Details(calls[j]).tookMs + ConfiguredTtlMs(calls[j].tool)

(***************************************************************************)
(* C2  Cache bypass.  A call whose effective cache flag is false always    *)
(* issues an upstream request, leaves both stores as they were when it     *)
(* starts and when it ends, reads and writes no store, and what it returns *)
(* is the upstream's own output, never tagged cached.                      *)
(***************************************************************************)
C2_CacheBypass ==
  [][\A id \in CallIds :
       LET c == calls'[id]
       IN  (Looked(c) /\ ~EffectiveCache(c)) =>
             /\ Started(id) =>
                  /\ c.pc = "fetching"
                  /\ c.fetches = 1
                  /\ c.request # None
                  /\ c.request[1].cache = FALSE
                  /\ c.storeReads = 0
                  /\ UNCHANGED << SUMMARIZE_CACHE, FASTGPT_CACHE >>
             /\ Finished(id) =>
                  /\ c.storeWrites = 0
                  /\ UNCHANGED << SUMMARIZE_CACHE, FASTGPT_CACHE >>
                  /\ ReturnedData(c) =>
                       /\ "cached" \notin DOMAIN Details(c)
                       /\ c.response # None
                       /\ c.response[1].output =
                            Some(IF c.tool = "kagi_summarize"
                                   THEN Details(c).summary ELSE Details(c).answer)
  ]_vars

\* two calls with the same arguments and caching off returned different results
C2_Witness ==
  \E i, j \in CallIds :
    /\ i # j
    /\ calls[i].tool = calls[j].tool /\ calls[i].args = calls[j].args
    /\ Looked(calls[i]) /\ ~EffectiveCache(calls[i])
    /\ ReturnedData(calls[i]) /\ ReturnedData(calls[j])
    /\ calls[i].response # calls[j].response
    /\ calls[i].storeReads + calls[i].storeWrites + calls[j].storeReads + calls[j].storeWrites = 0

(***************************************************************************)
(* C3  Cache hit short-circuits.  A cache-enabled call that finds a live   *)
(* entry under its key returns that entry's value tagged cached: true in   *)
(* the same step, issues no upstream request and changes no store; and a   *)
(* result tagged cached: true is the value of the entry found in the store.*)
(***************************************************************************)
C3_HitShortCircuits ==
  [][\A id \in CallIds :
       LET c  == calls'[id]
           st == StoreOf(c.tool)
           k  == c.cacheKey
       IN  /\ (Started(id) /\ Looked(c) /\ EffectiveCache(c)
                 /\ k \in DOMAIN st /\ ~(now > st[k].expiresAtEpochMs)) =>
                /\ ReturnedCached(c)
                /\ Details(c) = [cached |-> TRUE] @@ st[k].value
                /\ c.fetches = 0
                /\ c.request = None
                /\ id \notin inflight'
                /\ c.storeWrites = 0
                /\ UNCHANGED << SUMMARIZE_CACHE, FASTGPT_CACHE >>
           /\ (calls[id].pc # "done" /\ ReturnedData(c) /\ "cached" \in DOMAIN Details(c)) =>
                /\ Started(id)
                /\ EffectiveCache(c)
                /\ k \in DOMAIN st
                /\ Details(c) = [cached |-> TRUE] @@ st[k].value
  ]_vars

\* a call was answered from the store without an upstream request
C3_Witness ==
  \E id \in CallIds :
    /\ ReturnedCached(calls[id])
    /\ calls[id].readEntry # None
    /\ calls[id].fetches = 0
    /\ calls[id].request = None

(***************************************************************************)
(* C4  A tool call never throws for expected failure modes.  Every call    *)
(* whose upstream answered with a non-2xx status, or with a 2xx status and *)
(* an error object, or whose request timed out, ends by returning a        *)
(* structured error record; no exception reaches the dispatcher.           *)
(***************************************************************************)
C4_NeverThrows ==
  \A id \in CallIds :
    LET c == calls[id]
    IN  (c.pc = "done" /\ c.fetches = 1
           /\ \/ c.response = None
              \/ c.response # None /\ ~(c.response[1].status \in 200..299)
              \/ c.response # None /\ c.response[1].error # None) =>
          /\ c.outcome = "return"
          /\ c.error = None
          /\ ErrorCode(c) # ""

(***************************************************************************)
(* C5  Timeout enforcement.  A call whose upstream did not answer by the   *)
(* deadline has ended with a structured result that the adapter made of    *)
(* the timeout failure, and no upstream operation of it is left in flight. *)
(***************************************************************************)
C5_TimeoutTranslated ==
  \A id \in CallIds :
    LET c == calls[id]
    IN  (c.pc = "done" /\ c.fetches = 1 /\ c.response = None) =>
          /\ now >= c.deadline
          /\ id \notin inflight
          /\ ReturnedData(c)

(***************************************************************************)
(* C6  Mutual exclusivity.  With a resolvable credential, a summarize call *)
(* given neither url nor text returns the error missing_input, one given   *)
(* both returns conflicting_input, and one given exactly one of them       *)
(* returns neither error.  A parameter that is blank counts as not given.  *)
(***************************************************************************)
C6_MutualExclusivity ==
  \A id \in CallIds :
    LET c == calls[id]
    IN  (c.tool = "kagi_summarize" /\ c.pc # "idle" /\ CredentialResolvable(c.tool)) =>
          /\ (Blank(c.args.url) /\ Blank(c.args.text)) => ErrorCode(c) = "missing_input"
          /\ (~Blank(c.args.url) /\ ~Blank(c.args.text)) => ErrorCode(c) = "conflicting_input"
          /\ (Blank(c.args.url) # Blank(c.args.text)) =>
               ErrorCode(c) \notin { "missing_input", "conflicting_input" }

\* a call given both url and text was answered conflicting_input
C6_Witness ==
  \E id \in CallIds :
    /\ ~Blank(calls[id].args.url) /\ ~Blank(calls[id].args.text)
    /\ ErrorCode(calls[id]) = "conflicting_input"

(***************************************************************************)
(* C7  Graceful enum fallback.  A summarize call with a credential and     *)
(* exactly one of url and text proceeds to the upstream whatever its       *)
(* engine, summary_type and target_language are; an engine that is absent  *)
(* or not one of the three engines is replaced by the configured engine    *)
(* when that is one of the three, else by cecil; likewise summary_type     *)
(* (else summary) and target_language (the configured language when it is  *)
(* in the allow-list, else none).                                          *)
(***************************************************************************)
C7_EnumFallback ==
  \A id \in CallIds :
    LET c == calls[id]
    IN  (c.tool = "kagi_summarize" /\ c.pc # "idle" /\ CredentialResolvable(c.tool)
           /\ Blank(c.args.url) # Blank(c.args.text)) =>
          /\ c.request # None
          /\ ErrorCode(c) = ""
          /\ c.args.engine \in UnrecognizedEngines =>
               c.request[1].engine = ExpectedDefaultEngine
          /\ c.args.summary_type \in UnrecognizedSummaryTypes =>
               c.request[1].summary_type = ExpectedDefaultSummaryType
          /\ c.args.target_language \in UnrecognizedLanguages =>
               c.request[1].target_language = ExpectedDefaultLanguage

\* a call with an unknown engine went upstream with the configured engine
C7_Witness ==
  \E id \in CallIds :
    /\ calls[id].args.engine = Some("gpt4")
    /\ cfg.summarizer.engine = Some("muriel")
    /\ calls[id].request # None
    /\ calls[id].request[1].engine = "muriel"

(***************************************************************************)
(* C8  Webhook round-trip.  A handled request whose path is                *)
(* /webhooks/postmark is claimed; it is answered 405 Method not allowed    *)
(* when its method is not POST, 200 with ok: true and the payload's        *)
(* MessageID when its body is a Postmark email document, and 400 Invalid   *)
(* payload when its body is not JSON.                                      *)
(***************************************************************************)
C8_WebhookRoundTrip ==
  (handler.pc = "done" /\ req.url \in PostmarkUrls) =>
    /\ handler.returned = Some(TRUE)
    /\ req.method # "POST" =>
         /\ res.statusCode = Some(405)
         /\ res.body = Some([error |-> "Method not allowed"])
    /\ BodyRead(EmailText) =>
         /\ res.statusCode = Some(200)
         /\ res.body = Some([ok |-> TRUE, messageId |-> Some(JString("m-1"))])
    /\ BodyRead(ReplyText) =>
         /\ res.statusCode = Some(200)
         /\ res.body = Some([ok |-> TRUE, messageId |-> Some(JString("m-2"))])
    /\ (\E t \in NotJsonTexts : BodyRead(t)) =>
         /\ res.statusCode = Some(400)
         /\ res.body = Some([error |-> "Invalid payload"])

\* a POST of a Postmark email to the path was read, acknowledged and claimed
C8_Witness ==
  /\ req.url \in PostmarkUrls
  /\ BodyRead(EmailText)
  /\ res.statusCode = Some(200)
  /\ handler.returned = Some(TRUE)

(***************************************************************************)
(* C9  Claim-or-pass.  The handler ends the handling of a request whose    *)
(* path is not /webhooks/postmark in its first step, returning false, and  *)
(* that step changes neither the response nor the request; no later step   *)
(* reads the body or writes the response.                                  *)
(***************************************************************************)
C9_ClaimOrPass ==
  [][(req.url \notin PostmarkUrls) =>
       /\ handler.pc = "start"
       /\ handler'.pc = "done"
       /\ handler'.returned = Some(FALSE)
       /\ handler'.body = ""
       /\ res = FreshResponse
       /\ res' = res
       /\ req' = req
  ]_vars

\* a POST to another path was passed on
C9_Witness ==
  /\ req.url = Some("/hooks/other")
  /\ req.method = "POST"
  /\ req.chunks # << >>
  /\ handler.pc = "done"
  /\ handler.returned = Some(FALSE)

(***************************************************************************)
(* C10  Malformed inbound payload.  A POST to /webhooks/postmark whose     *)
(* body is JSON but not an inbound email (an empty object, an object       *)
(* without MessageID, a number, a string, null) is answered 400 and        *)
(* claimed, never 200.                                                     *)
(***************************************************************************)
C10_MalformedPayloadRejected ==
  (req.url \in PostmarkUrls /\ \E t \in MalformedJsonTexts : BodyRead(t)) =>
    /\ res.statusCode = Some(400)
    /\ handler.returned = Some(TRUE)

\* the display text the three well-formed emails call for: sender (the display name
\* when there is one), subject, and the reply text or else the text body, cut after
\* 1000 characters with an ellipsis
ExpectedSummary(text) ==
  CASE text = EmailText -> "**New Email**\n\n**From:** ann@x.test\n**Subject:** Hi\n\nhello"
    [] text = ReplyText -> "**New Email**\n\n**From:** bob@x.test\n**Subject:** Re\n\nok"
    [] text = LongText ->
         "**New Email**\n\n**From:** Cy\n**Subject:** News\n\n" \o SubSeq(LongBody, 1, 1000) \o "..."

(***************************************************************************)
(* C11  Webhook forwarding.  When the handler has ended the handling of a  *)
(* POST to /webhooks/postmark whose body is a well-formed inbound email    *)
(* and a downstream sink was given, the sink has been called once, with    *)
(* the display text of that email.                                         *)
(***************************************************************************)
C11_WebhookForwarding ==
  \A t \in { EmailText, ReplyText, LongText } :
    (req.url \in PostmarkUrls /\ BodyRead(t) /\ sendToTelegram.given) =>
      sendToTelegram.sent = << ExpectedSummary(t) >>

\* the display text is built as called for, and the email acknowledged
C11_SummaryBuilt ==
  \A t \in { EmailText, ReplyText, LongText } :
    (req.url \in PostmarkUrls /\ BodyRead(t)) =>
      /\ handler.message = Some(ExpectedSummary(t))
      /\ res.statusCode = Some(200)

\* what a request asks for: the source by kind and content, and an enum argument up to
\* case and surrounding spaces
SourceOf(args) ==
  IF ~Blank(args.url) THEN << "url", trim(args.url[1]) >> ELSE << "text", trim(OrElse(args.text, "")) >>
EnumArg(o) == IF o = None THEN None ELSE Some(toLowerCase(trim(o[1])))

\* two summarize calls ask for the same thing
SameSummarizeRequest(a, b) ==
  /\ SourceOf(a.args) = SourceOf(b.args)
  /\ EnumArg(a.args.engine) = EnumArg(b.args.engine)
  /\ EnumArg(a.args.summary_type) = EnumArg(b.args.summary_type)
  /\ EnumArg(a.args.target_language) = EnumArg(b.args.target_language)
  /\ a.args.cache = b.args.cache

\* two summarize calls differ in source, engine, summary type or language
DistinctSummarizeRequest(a, b) ==
  \/ SourceOf(a.args) # SourceOf(b.args)
  \/ a.params.engine # b.params.engine
  \/ a.params.summaryType # b.params.summaryType
  \/ a.params.targetLanguage # b.params.targetLanguage

\* two calls that got to the cache lookup
KeyedPairs(tool) ==
  { p \in CallIds \X CallIds :
      /\ p[1] # p[2]
      /\ Looked(calls[p[1]]) /\ Looked(calls[p[2]])
      /\ calls[p[1]].tool = tool /\ calls[p[2]].tool = tool }

(***************************************************************************)
(* C12  Cache key determinism and distinctness.  Two summarize calls for   *)
(* the same source, engine, summary type and language (enum arguments up   *)
(* to case and spaces) use the same cache key; two summarize calls that    *)
(* differ in source (by url against by text, or another url or text),      *)
(* engine, summary type or language, and two fastgpt calls with different  *)
(* queries, never use the same key.                                        *)
(***************************************************************************)
C12_KeyDeterminismAndDistinctness ==
  /\ \A p \in KeyedPairs("kagi_summarize") :
       LET a == calls[p[1]]
           b == calls[p[2]]
       IN  /\ SameSummarizeRequest(a, b) => a.cacheKey = b.cacheKey
           /\ DistinctSummarizeRequest(a, b) => a.cacheKey # b.cacheKey
  /\ \A p \in KeyedPairs("kagi_fastgpt") :
       LET a == calls[p[1]]
           b == calls[p[2]]
       IN  /\ (a.args.query = b.args.query /\ a.args.cache = b.args.cache) => a.cacheKey = b.cacheKey
           /\ a.args.query # b.args.query => a.cacheKey # b.cacheKey

\* the same without the by-url against by-text case
C12_ApartFromDigestClash ==
  /\ \A p \in KeyedPairs("kagi_summarize") :
       LET a == calls[p[1]]
           b == calls[p[2]]
       IN  /\ SameSummarizeRequest(a, b) => a.cacheKey = b.cacheKey
           /\ (DistinctSummarizeRequest(a, b)
                 /\ ~(   { SourceOf(a.args), SourceOf(b.args) }
                           = { << "url", "2cf24dba5fb0a30e" >>, << "text", "hello" >> }
                      /\ a.params.engine = b.params.engine
                      /\ a.params.summaryType = b.params.summaryType
                      /\ a.params.targetLanguage = b.params.targetLanguage))
                => a.cacheKey # b.cacheKey
  /\ \A p \in KeyedPairs("kagi_fastgpt") :
       LET a == calls[p[1]]
           b == calls[p[2]]
       IN  /\ (a.args.query = b.args.query /\ a.args.cache = b.args.cache) => a.cacheKey = b.cacheKey
           /\ a.args.query # b.args.query => a.cacheKey # b.cacheKey

\* a by-url call and a by-text call under one key
C12_DigestClash ==
  \E p \in KeyedPairs("kagi_summarize") :
    /\ calls[p[1]].args.url = Some("2cf24dba5fb0a30e")
    /\ calls[p[2]].args.text = Some("hello")
    /\ calls[p[1]].cacheKey = calls[p[2]].cacheKey

\* the adapter is switched off in its config section
Disabled(tool) == SectionOf(tool).enabled = Some(FALSE)

(***************************************************************************)
(* C13  Tool construction.  Each create function returns null exactly when *)
(* its adapter is disabled, or when neither the config apiKey nor          *)
(* KAGI_API_KEY holds more than spaces and the adapter is not sandboxed;   *)
(* otherwise it returns a tool.  A call to a tool made without a           *)
(* credential (sandboxed) returns the missing_kagi_api_key record, it does *)
(* not throw.                                                              *)
(***************************************************************************)
C13_ToolConstruction ==
  /\ \A tool \in { "kagi_summarize", "kagi_fastgpt" } :
       /\ tools[tool] \in { "null", "tool" }
       /\ tools[tool] = "null" <=> (Disabled(tool) \/ (~CredentialResolvable(tool) /\ ~sandboxed))
  /\ \A id \in CallIds :
       calls[id].pc # "idle" =>
         /\ tools[calls[id].tool] = "tool"
         /\ ~CredentialResolvable(calls[id].tool) =>
              /\ sandboxed
              /\ calls[id].pc = "done"
              /\ calls[id].outcome = "return"
              /\ ErrorCode(calls[id]) = "missing_kagi_api_key"

\* a sandboxed summarizer without a credential was made and called
C13_Witness ==
  /\ sandboxed
  /\ cfg.summarizer.apiKey = Some("  ")
  /\ envKey = Some("")
  /\ tools.kagi_summarize = "tool"
  /\ calls[1].tool = "kagi_summarize"
  /\ ErrorCode(calls[1]) = "missing_kagi_api_key"

\* without a credential and outside the sandbox no tool is made, although enabled
C13_NullWitness ==
  /\ ~sandboxed
  /\ cfg.fastgpt.enabled = Some(TRUE)
  /\ cfg.fastgpt.apiKey = None
  /\ envKey = None
  /\ tools.kagi_fastgpt = "null"
  /\ cfg.summarizer.apiKey = Some(" k1 ")
  /\ calls[1].tool = "kagi_summarize"
  /\ calls[1].pc = "done"

\* the step in which the fetch of call id is aborted by its timeout signal
TimedOut(id) == Finished(id) /\ calls'[id].response = None

(***************************************************************************)
(* C14  A timed-out call never reaches the cache write.  The step in which *)
(* the fetch of a call is aborted by its timeout leaves both stores as     *)
(* they are and is the call's last step: from the issue of its fetch on,   *)
(* the call itself changes no store, whatever other calls do.              *)
(***************************************************************************)
C14_TimedOutNeverWrites ==
  [][\A id \in CallIds :
       /\ TimedOut(id) =>
            /\ UNCHANGED << SUMMARIZE_CACHE, FASTGPT_CACHE >>
            /\ calls'[id].storeWrites = 0
            /\ calls'[id].outcome = "throw"
            /\ now >= calls[id].deadline
       /\ (calls[id].pc = "fetching" /\ calls'[id].pc # "done") => calls'[id] = calls[id]
       /\ calls[id].pc = "done" => calls'[id] = calls[id]
  ]_vars

\* a cache-enabled call timed out and its key is not in the store
C14_Witness ==
  \E id \in CallIds :
    /\ calls[id].pc = "done"
    /\ calls[id].fetches = 1
    /\ calls[id].response = None
    /\ EffectiveCache(calls[id])
    /\ now >= calls[id].deadline
    /\ calls[id].cacheKey \notin DOMAIN StoreOf(calls[id].tool)

\* calls i and j belong to one adapter, use one cache key and have caching on
SameKeyCached(a, b) ==
  /\ a.tool = b.tool /\ a.cacheKey = b.cacheKey
  /\ Looked(a) /\ EffectiveCache(a) /\ EffectiveCache(b)

\* the instant at which a call that fetched and returned a result ended
EndOf(c) == c.start + Details(c).tookMs

(***************************************************************************)
(* C15  No single-flight coalescing.  A cache-enabled call that starts     *)
(* while another call with the same key is waiting for its upstream, and   *)
(* finds no live entry, issues an upstream request of its own and leaves   *)
(* the other request open; every such call that succeeds writes the store, *)
(* and after its write the entry under the key is its value with its       *)
(* expiry, whatever an earlier-finished call had written there.            *)
(***************************************************************************)
C15_NoSingleFlight ==
  [][\A i \in CallIds :
       LET c  == calls'[i]
           st == StoreOf(c.tool)
           k  == c.cacheKey
       IN  /\ (Started(i) /\ ~(k \in DOMAIN st /\ ~(now > st[k].expiresAtEpochMs))
                 /\ \E j \in CallIds \ {i} : calls[j].pc = "fetching" /\ SameKeyCached(c, calls[j])) =>
                /\ c.pc = "fetching"
                /\ c.fetches = 1
                /\ c.request # None
                /\ inflight' = inflight \cup {i}
                /\ i \notin inflight
           /\ (Finished(i) /\ ReturnedData(c) /\ EffectiveCache(c)) =>
                /\ c.storeWrites = 1
                /\ k \in DOMAIN StoreAfter(c.tool)
                /\ StoreAfter(c.tool)[k] =
                     [value |-> Details(c), expiresAtEpochMs |-> now + ConfiguredTtlMs(c.tool)]
                /\ \A j \in CallIds \ {i} :
                     (calls[j].pc = "fetching" /\ SameKeyCached(c, calls[j])) =>
                       /\ calls'[j] = calls[j]
                       /\ j \in inflight'
  ]_vars

\* two calls on one key both went upstream; the one started first ended last and its
\* result replaced the other's in the store
C15_Witness ==
  \E i, j \in CallIds :
    /\ i < j
    /\ SameKeyCached(calls[i], calls[j])
    /\ ReturnedData(calls[i]) /\ ReturnedData(calls[j])
    /\ calls[i].fetches = 1 /\ calls[j].fetches = 1
    /\ calls[i].storeWrites = 1 /\ calls[j].storeWrites = 1
    /\ calls[i].start <= calls[j].start
    /\ calls[j].start < EndOf(calls[i])
    /\ EndOf(calls[j]) < EndOf(calls[i])
    /\ Details(calls[i]) # Details(calls[j])
    /\ calls[i].cacheKey \in DOMAIN StoreOf(calls[i].tool)
    /\ StoreOf(calls[i].tool)[calls[i].cacheKey].value = Details(calls[i])
    /\ StoreOf(calls[i].tool)[calls[i].cacheKey].expiresAtEpochMs
         = EndOf(calls[i]) + ConfiguredTtlMs(calls[i].tool)

C16_MissAtLaterInstant ==
  [][\A id \in CallIds :
       LET c == calls'[id]
       IN  (Started(id) /\ ReturnedCached(c) /\ ConfiguredTtlMs(c.tool) = 0) =>
             /\ c.cacheKey \in DOMAIN StoreOf(c.tool)
             /\ StoreOf(c.tool)[c.cacheKey].expiresAtEpochMs = now
  ]_vars

\* a call was answered from an entry written with a time-to-live of 0
C16_HitAtWriteInstant ==
  \E i, j \in CallIds :
    /\ i # j
    /\ ConfiguredTtlMs(calls[i].tool) = 0
    /\ SameKeyCached(calls[i], calls[j])
    /\ ReturnedData(calls[i]) /\ calls[i].storeWrites = 1
    /\ ReturnedCached(calls[j])
    /\ Details(calls[j]) = [cached |-> TRUE] @@ Details(calls[i])

\* the fields of a shaped success result (token count and balance are left out of the model)
PayloadFields(tool) ==
  IF tool = "kagi_summarize"
    THEN { "provider", "source", "engine", "summaryType", "targetLanguage", "tookMs", "summary" }
    ELSE { "query", "provider", "tookMs", "answer" }

\* call c went upstream with caching on, got a success answer and returned value v,
\* shaped from that answer
SuccessOf(c, tool, k, v) ==
  /\ c.tool = tool /\ c.cacheKey = k
  /\ EffectiveCache(c)
  /\ c.fetches = 1 /\ c.storeWrites = 1
  /\ c.response # None
  /\ c.response[1].status = 200
  /\ c.response[1].error = None
  /\ ReturnedData(c)
  /\ Details(c) = v
  /\ c.response[1].output = Some(IF tool = "kagi_summarize" THEN v.summary ELSE v.answer)

(***************************************************************************)
(* C17  Store content.  In every reachable state every entry of an         *)
(* adapter's store holds the shaped success result that a completed        *)
(* cache-enabled upstream call of that adapter returned; no entry holds an *)
(* error record, and no stored value has the cached tag.                   *)
(***************************************************************************)
C17_StoreContent ==
  \A tool \in { "kagi_summarize", "kagi_fastgpt" } :
    \A k \in DOMAIN StoreOf(tool) :
      LET v == StoreOf(tool)[k].value
      IN  /\ DOMAIN v = PayloadFields(tool)
          /\ "cached" \notin DOMAIN v
          /\ "error" \notin DOMAIN v
          /\ \E id \in CallIds : SuccessOf(calls[id], tool, k, v)

\* an entry is in the store while calls on its key have failed, timed out or been
\* answered from the store
C17_Witness ==
  \E tool \in { "kagi_summarize", "kagi_fastgpt" } :
    \E k \in DOMAIN StoreOf(tool) :
      \E i, j \in CallIds :
        /\ SuccessOf(calls[i], tool, k, StoreOf(tool)[k].value)
        /\ calls[j].tool = tool /\ calls[j].cacheKey = k /\ calls[j].pc = "done"
        /\ \/ calls[j].outcome = "throw"
           \/ ReturnedCached(calls[j])

(***************************************************************************)
(* C18  Exactly one response per claimed request.  When the handler has    *)
(* returned true, one response has been written to the request: one status *)
(* of 200, 400 or 405, one body, one end.  When it has returned false, or  *)
(* has not returned yet, nothing has been written.  A response once        *)
(* written is never written again (no 200 followed by a 400).              *)
(***************************************************************************)
C18_ExactlyOneResponse ==
  /\ [](/\ handler.returned = Some(TRUE) =>
             /\ res.ended = 1
             /\ res.statusCode \in { Some(200), Some(400), Some(405) }
             /\ res.body # None
        /\ handler.returned # Some(TRUE) => res = FreshResponse
        /\ handler.returned # None <=> handler.pc = "done")
  /\ [][res # FreshResponse => res' = res]_vars

\* a claimed request was answered 400 once, after its body had been read
C18_Witness ==
  /\ req.url \in PostmarkUrls
  /\ BodyRead(OddText)
  /\ handler.returned = Some(TRUE)
  /\ res.statusCode = Some(400)
  /\ res.ended = 1

\* the codes execute() answers on its own, before runSummarize / runFastGPT
ExecuteErrors == { "missing_kagi_api_key", "missing_input", "conflicting_input" }

(***************************************************************************)
(* C19  Execute-time errors are free of side effects.  A call that returns *)
(* missing_kagi_api_key, missing_input or conflicting_input ends in the    *)
(* step it starts in, has issued no upstream request, has neither read nor *)
(* written a store, and leaves both stores as they were.  The checks come  *)
(* in order: without a credential the answer is missing_kagi_api_key       *)
(* whatever the arguments are; with one, a summarize call without url and  *)
(* text, or with both, is refused before any lookup; and a call goes       *)
(* upstream only after its lookup (if caching is on) found nothing.        *)
(***************************************************************************)
C19_ExecuteErrorsSideEffectFree ==
  [][\A id \in CallIds :
       LET c == calls'[id]
       IN  /\ (calls[id].pc # "done" /\ ErrorCode(c) \in ExecuteErrors) =>
                /\ Started(id)
                /\ c.outcome = "return"
                /\ c.fetches = 0 /\ c.request = None
                /\ c.storeReads = 0 /\ c.storeWrites = 0 /\ c.readEntry = None
                /\ ~Looked(c)
                /\ inflight' = inflight
                /\ UNCHANGED << SUMMARIZE_CACHE, FASTGPT_CACHE >>
           /\ Started(id) =>
                /\ ~CredentialResolvable(c.tool) => ErrorCode(c) = "missing_kagi_api_key"
                /\ (CredentialResolvable(c.tool) /\ c.tool = "kagi_summarize"
                      /\ Blank(c.args.url) = Blank(c.args.text)) =>
                     ErrorCode(c) \in { "missing_input", "conflicting_input" }
                /\ c.fetches = 1 =>
                     /\ ErrorCode(c) = ""
                     /\ EffectiveCache(c) => (c.storeReads = 1 /\ c.readEntry = None)
           /\ (calls[id].pc = "done" /\ ErrorCode(calls[id]) \in ExecuteErrors) => c = calls[id]
  ]_vars

\* a call without a credential and with both url and text was answered
\* missing_kagi_api_key
C19_Witness ==
  \E id \in CallIds :
    /\ ~CredentialResolvable("kagi_summarize")
    /\ calls[id].tool = "kagi_summarize"
    /\ ~Blank(calls[id].args.url) /\ ~Blank(calls[id].args.text)
    /\ ErrorCode(calls[id]) = "missing_kagi_api_key"
    /\ calls[id].storeReads = 0 /\ calls[id].fetches = 0

(***************************************************************************)
(* C20  Upstream request well-formedness.  Every request kagi_summarize    *)
(* sends upstream has an engine among cecil, agnes, muriel, a summary_type *)
(* among summary, takeaway, a target_language that is absent or in the     *)
(* language allow-list (ZH-HANT when the caller wrote ZHHANT), and exactly *)
(* one of url and text, not blank, whatever the arguments and the          *)
(* configured defaults are.                                                *)
(***************************************************************************)
C20_RequestWellFormed ==
  \A id \in CallIds :
    LET c == calls[id]
    IN  (c.tool = "kagi_summarize" /\ c.request # None) =>
          LET r == c.request[1]
          IN  /\ c.fetches = 1
              /\ r.engine \in { "cecil", "agnes", "muriel" }
              /\ r.summary_type \in { "summary", "takeaway" }
              /\ r.target_language = None \/ r.target_language[1] \in TARGET_LANGUAGES
              /\ c.args.target_language = Some("zhhant") => r.target_language = Some("ZH-HANT")
              /\ (r.url = None) # (r.text = None)
              /\ ~(r.url # None /\ Blank(r.url))
              /\ ~(r.text # None /\ Blank(r.text))
              /\ r.cache \in BOOLEAN

\* a request went upstream for a call whose engine and summary type are not in the
\* allow-lists, whose language is written zhhant, and whose configured defaults are not
\* in the allow-lists either
C20_Witness ==
  \E id \in CallIds :
    /\ cfg.summarizer.engine = Some("Agnes")
    /\ cfg.summarizer.targetLanguage = Some("zhhant")
    /\ calls[id].tool = "kagi_summarize"
    /\ calls[id].args.engine = Some("gpt4")
    /\ calls[id].args.summary_type = Some("bullets")
    /\ calls[id].args.target_language = Some("zhhant")
    /\ calls[id].args.text = Some("hello")
    /\ calls[id].request # None
    /\ calls[id].request[1].target_language = Some("ZH-HANT")
    /\ calls[id].request[1].engine = "cecil"
    /\ calls[id].request[1].url = None

\* the step puts an entry under key k of the adapter's store, or changes the one there
Replaced(tool, k) ==
  /\ k \in DOMAIN StoreAfter(tool)
  /\ k \notin DOMAIN StoreOf(tool) \/ StoreAfter(tool)[k] # StoreOf(tool)[k]

(***************************************************************************)
(* C21  No sliding expiry.  The step in which a call is answered from the  *)
(* store leaves both stores as they are: the entry found keeps its value   *)
(* and its expiry, so it is served no later than the expiry set when it    *)
(* was written.  An entry is put or changed only by the end of a           *)
(* successful cache-enabled upstream call on that key, and then as a       *)
(* whole: the value that call returns with expiry (time of the write +     *)
(* time-to-live).  An entry otherwise only disappears, when it is read     *)
(* after its expiry.                                                       *)
(***************************************************************************)
C21_NoSlidingExpiry ==
  [][/\ \A id \in CallIds :
          LET c == calls'[id]
          IN  (Started(id) /\ ReturnedCached(c)) =>
                /\ UNCHANGED << SUMMARIZE_CACHE, FASTGPT_CACHE >>
                /\ c.cacheKey \in DOMAIN StoreOf(c.tool)
                /\ c.readEntry = Some(StoreOf(c.tool)[c.cacheKey])
                /\ now <= StoreOf(c.tool)[c.cacheKey].expiresAtEpochMs
                /\ c.storeWrites = 0
     /\ \A tool \in { "kagi_summarize", "kagi_fastgpt" } :
          /\ \A k \in DOMAIN StoreAfter(tool) :
               Replaced(tool, k) =>
                 \E id \in CallIds :
                   /\ Finished(id)
                   /\ SuccessOf(calls'[id], tool, k, StoreAfter(tool)[k].value)
                   /\ StoreAfter(tool)[k] =
                        [value |-> Details(calls'[id]),
                         expiresAtEpochMs |-> now + ConfiguredTtlMs(tool)]
          /\ \A k \in DOMAIN StoreOf(tool) \ DOMAIN StoreAfter(tool) :
               /\ now > StoreOf(tool)[k].expiresAtEpochMs
               /\ \E id \in CallIds :
                    Started(id) /\ calls'[id].tool = tool /\ calls'[id].cacheKey = k
                      /\ calls'[id].fetches = 1
  ]_vars

\* a call was answered from the store, and at the expiry instant the entry is still
\* what its writer left: the writer's value, expiring one time-to-live after the write
C21_Witness ==
  \E i, j \in CallIds :
    /\ i # j
    /\ SameKeyCached(calls[i], calls[j])
    /\ ReturnedCached(calls[i])
    /\ ConfiguredTtlMs(calls[j].tool) > 0
    /\ calls[j].cacheKey \in DOMAIN StoreOf(calls[j].tool)
    /\ SuccessOf(calls[j], calls[j].tool, calls[j].cacheKey,
                 StoreOf(calls[j].tool)[calls[j].cacheKey].value)
    /\ calls[i].readEntry = Some(StoreOf(calls[j].tool)[calls[j].cacheKey])
    /\ StoreOf(calls[j].tool)[calls[j].cacheKey].expiresAtEpochMs
         = EndOf(calls[j]) + ConfiguredTtlMs(calls[j].tool)
    /\ now = EndOf(calls[j]) + ConfiguredTtlMs(calls[j].tool)
====
